---------------------------- MODULE Spec2Model ----------------------------
(***************************************************************************)
(* Model of the DepthPro fast image processor                              *)
(* (image_processing_depth_pro_fast.py) and of DepthProConfig              *)
(* (configuration_depth_pro.py).                                           *)
(*                                                                         *)
(* Conventions.                                                            *)
(*   - A Python value that may be None is a set with at most one element:  *)
(*     None is {} and the value x is {x}.                                  *)
(*   - A real number is an exact rational <<n, d>> in lowest terms with    *)
(*     d > 0; <<1, 0>> stands for +inf (the float result of 1.0 / 0).      *)
(*   - A tensor is [shape |-> <<dims>>, data |-> <<row-major elements>>].  *)
(***************************************************************************)
EXTENDS Integers, Sequences, FiniteSets, TLC

VARIABLES self, pre, validate_cache, transform_memo, post, config

vars == <<self, pre, validate_cache, transform_memo, post, config>>

-----------------------------------------------------------------------------
(* Python None / Optional *)

None == {}

Some(x) == {x}

IsNone(o) == o = {}

Get(o) == CHOOSE x \in o : TRUE

(* A raised exception: its class and a word for its message *)
Exc(type, msg) == [type |-> type, msg |-> msg]

-----------------------------------------------------------------------------
(* Evaluation order: the statements of the code run one after the other,   *)
(* each on the values the statements before it computed.                   *)

(* F(v), where v is evaluated once, before F is entered *)
With(v, F(_)) == CHOOSE y \in {F(x) : x \in {v}} : TRUE

(* F(a, b), where a and b are evaluated once, before F is entered *)
With2(a, b, F(_, _)) == CHOOSE y \in {F(x1, x2) : x1 \in {a}, x2 \in {b}} : TRUE

-----------------------------------------------------------------------------
(* Exact rational arithmetic standing for the float arithmetic of torch *)

Abs(x) == IF x < 0 THEN -x ELSE x

RECURSIVE GCD(_, _)
GCD(a, b) == With2(a, b, LAMBDA x, y : IF y = 0 THEN x ELSE GCD(y, x % y))

Rat(n, d) ==
  With2(n, d, LAMBDA p, q :
    IF p = 0 THEN <<0, 1>>
    ELSE With(GCD(Abs(p), Abs(q)), LAMBDA g :
           IF q < 0 THEN <<(-p) \div g, (-q) \div g>> ELSE <<p \div g, q \div g>>))

RInt(k) == <<k, 1>>

(* Common factors are cancelled before the products are formed *)
RMul(a, b) ==
  With2(a, b, LAMBDA x, y :
    IF x[1] = 0 \/ y[1] = 0 THEN <<0, 1>>
    ELSE With2(GCD(Abs(x[1]), y[2]), GCD(Abs(y[1]), x[2]), LAMBDA g1, g2 :
           <<(x[1] \div g1) * (y[1] \div g2), (x[2] \div g2) * (y[2] \div g1)>>))

RDiv(a, b) == With(b, LAMBDA y : RMul(a, Rat(y[2], y[1])))

RAdd(a, b) ==
  With2(a, b, LAMBDA x, y :
    IF x[2] = y[2] THEN Rat(x[1] + y[1], x[2])
    ELSE With(GCD(x[2], y[2]), LAMBDA g :
           With((x[2] \div g) * y[2], LAMBDA l :
             Rat(x[1] * (l \div x[2]) + y[1] * (l \div y[2]), l))))

RSub(a, b) == With(b, LAMBDA y : RAdd(a, <<-y[1], y[2]>>))

(* a < b, by the integer parts and then the reciprocals of the fractional  *)
(* parts, so that no product is formed                                      *)
RECURSIVE RLess(_, _)
RLess(a, b) ==
  With2(a, b, LAMBDA x, y :
    LET fa == x[1] \div x[2]
        fb == y[1] \div y[2]
        ra == x[1] % x[2]
        rb == y[1] % y[2]
    IN  IF fa # fb THEN fa < fb
        ELSE IF rb = 0 THEN FALSE
        ELSE IF ra = 0 THEN TRUE
        ELSE RLess(<<y[2], rb>>, <<x[2], ra>>))

RLeq(a, b) == ~RLess(b, a)

(* The sum of s[lo..hi], halving the range *)
RECURSIVE RSumOf(_, _, _)
RSumOf(s, lo, hi) ==
  IF lo > hi THEN <<0, 1>>
  ELSE IF lo = hi THEN s[lo]
  ELSE With((lo + hi) \div 2, LAMBDA m :
         RAdd(RSumOf(s, lo, m), RSumOf(s, m + 1, hi)))

RSum(s) == With(s, LAMBDA v : RSumOf(v, 1, Len(v)))

-----------------------------------------------------------------------------
(* Tensors and the torch operations post_process_depth_estimation calls *)

Tensor(shape, data) == [shape |-> shape, data |-> data]

(* A sequence given as a function, as the tuple of its elements *)
AsTuple(s) == s \o <<>>

MapSeq(Op(_), s) == With(s, LAMBDA v : AsTuple([k \in 1..Len(v) |-> Op(v[k])]))

(* predicted_depth * width / fov, elementwise, evaluated left to right *)
ScaleBy(t, width, f) ==
  With2(t, f, LAMBDA v, g :
    LET One(x) == RDiv(RMul(x, RInt(width)), g)
    IN  Tensor(v.shape, MapSeq(One, v.data)))

CLAMP_MIN == <<1, 10000>>

CLAMP_MAX == <<10000, 1>>

(* torch.clamp(x, min, max) = min(max(x, min), max) *)
Clamp(x, lo, hi) ==
  With(IF RLess(x, lo) THEN lo ELSE x, LAMBDA a : IF RLess(hi, a) THEN hi ELSE a)

ClampTensor(t, lo, hi) ==
  With(t, LAMBDA v :
    LET One(x) == Clamp(x, lo, hi)
    IN  Tensor(v.shape, MapSeq(One, v.data)))

(* 1.0 / x in float arithmetic: 1.0 / 0 is +inf *)
Recip(x) == With(x, LAMBDA v : IF v[1] = 0 THEN <<1, 0>> ELSE Rat(v[2], v[1]))

RecipTensor(t) == With(t, LAMBDA v : Tensor(v.shape, MapSeq(Recip, v.data)))

(* Tensor.squeeze(): every dimension of size 1 is removed *)
Squeeze(t) == With(t, LAMBDA v : Tensor(SelectSeq(v.shape, LAMBDA d : d # 1), v.data))

(* pil_torch_interpolation_mapping[resample].value *)
PILImageResampling == {"NEAREST", "BOX", "BILINEAR", "HAMMING", "BICUBIC", "LANCZOS"}

pil_torch_interpolation_mapping(resample) ==
  CASE resample = "NEAREST"  -> "nearest"
    [] resample = "BOX"      -> "box"
    [] resample = "BILINEAR" -> "bilinear"
    [] resample = "HAMMING"  -> "hamming"
    [] resample = "BICUBIC"  -> "bicubic"
    [] resample = "LANCZOS"  -> "lanczos"

Min(a, b) == IF a < b THEN a ELSE b

Max(a, b) == IF a > b THEN a ELSE b

(* cubic convolution kernels of torch, x in [0, 1] and x in [1, 2] *)
CubicConv1(x, A) ==
  With(x, LAMBDA v :
    RAdd(RMul(RMul(RSub(RMul(RAdd(A, RInt(2)), v), RAdd(A, RInt(3))), v), v), RInt(1)))

CubicConv2(x, A) ==
  With(x, LAMBDA v :
    RSub(RMul(RAdd(RMul(RSub(RMul(A, v), RMul(RInt(5), A)), v), RMul(RInt(8), A)), v),
         RMul(RInt(4), A)))

(* The input pixels (0-based index, weight) that make output pixel j along   *)
(* one axis of length I resized to length O, without anti-aliasing           *)
(* (align_corners = False).                                                  *)
Taps(mode, j, I, O) ==
  LET num == (2 * j + 1) * I - O
      den == 2 * O
  IN  CASE mode = "nearest" -> << <<Min((j * I) \div O, I - 1), RInt(1)>> >>
        [] mode = "bilinear" ->
             LET n  == Max(num, 0)
                 i0 == n \div den
                 i1 == IF i0 < I - 1 THEN i0 + 1 ELSE i0
                 l  == Rat(n % den, den)
             IN  << <<i0, RSub(RInt(1), l)>>, <<i1, l>> >>
        [] mode = "bicubic" ->
             LET i0 == num \div den
                 A  == <<-3, 4>>
                 At(k) == Max(Min(i0 + k, I - 1), 0)
             IN  With(Rat(num % den, den), LAMBDA t :
                   << <<At(-1), CubicConv2(RAdd(t, RInt(1)), A)>>,
                      <<At(0),  CubicConv1(t, A)>>,
                      <<At(1),  CubicConv1(RSub(RInt(1), t), A)>>,
                      <<At(2),  CubicConv2(RSub(RInt(2), t), A)>> >>)

(* The anti-aliasing filters: triangle (bilinear) and cubic with a = -0.5 *)
AAFilter(mode, x) ==
  With(x, LAMBDA v :
    LET ax == <<Abs(v[1]), v[2]>>
        A  == <<-1, 2>>
    IN  IF mode = "bilinear"
        THEN IF RLess(ax, RInt(1)) THEN RSub(RInt(1), ax) ELSE RInt(0)
        ELSE IF RLess(ax, RInt(1)) THEN CubicConv1(ax, A)
             ELSE IF RLess(ax, RInt(2)) THEN CubicConv2(ax, A) ELSE RInt(0))

Floor(r) == With(r, LAMBDA v : v[1] \div v[2])

(* The same with anti-aliasing: the filter is stretched by the scale when    *)
(* downsampling and its weights are normalised.                              *)
TapsAA(mode, j, I, O) ==
  LET scale    == Rat(I, O)
      half     == IF mode = "bilinear" THEN RInt(1) ELSE RInt(2)
      down     == I >= O
      invscale == IF down THEN Rat(O, I) ELSE RInt(1)
  IN  With2(IF down THEN RMul(half, scale) ELSE half, RMul(scale, Rat(2 * j + 1, 2)),
        LAMBDA support, center :
          With2(Max(Floor(RAdd(RSub(center, support), <<1, 2>>)), 0),
                Min(Floor(RAdd(RAdd(center, support), <<1, 2>>)), I),
            LAMBDA xmin, xmax :
              LET W(k) == AAFilter(mode,
                            RMul(RAdd(RSub(RInt(k), center), <<1, 2>>), invscale))
              IN  With(AsTuple([k \in 1..(xmax - xmin) |-> W(xmin + k - 1)]), LAMBDA ws :
                    With(RSum(ws), LAMBDA total :
                      AsTuple([k \in 1..Len(ws) |->
                                 <<xmin + k - 1, RDiv(ws[k], total)>>])))))

(* The exception torch.nn.functional.interpolate raises on a 4-D input, or None *)
InterpolateError(mode, antialias) ==
  IF antialias = Some(TRUE) /\ mode \notin {"bilinear", "bicubic"}
  THEN Some(Exc("ValueError", "anti-alias option is restricted to bilinear and bicubic"))
  ELSE IF mode \notin {"nearest", "bilinear", "bicubic"}
       THEN Some(Exc("NotImplementedError", "interpolation mode"))
       ELSE None

(* The weighted sum of the pixels data[base + i * stride + 1] over the     *)
(* taps (i, weight)                                                         *)
Dot(taps, data, base, stride) ==
  With(taps, LAMBDA tp :
    RSum(AsTuple([n \in 1..Len(tp) |->
                    RMul(tp[n][2], data[base + tp[n][1] * stride + 1])])))

(* torch.nn.functional.interpolate(input[None, None], size, mode, antialias), *)
(* input of shape (H, W); the result has shape (1, 1, size[1], size[2]).     *)
(* The filters are separable: the rows are resized, then the columns.        *)
Interpolate(t, size, mode, antialias) ==
  With(t, LAMBDA v :
  LET H == v.shape[1]
      W == v.shape[2]
      h == size[1]
      w == size[2]
      T(j, I, O) == IF antialias = Some(TRUE) THEN TapsAA(mode, j, I, O)
                    ELSE Taps(mode, j, I, O)
      Rows(data) ==
        With(AsTuple([c \in 1..w |-> T(c - 1, W, w)]), LAMBDA tc :
          AsTuple([k \in 1..(H * w) |->
                     Dot(tc[((k - 1) % w) + 1], data, ((k - 1) \div w) * W, 1)]))
      Columns(data) ==
        With(AsTuple([r \in 1..h |-> T(r - 1, H, h)]), LAMBDA tr :
          AsTuple([k \in 1..(h * w) |->
                     Dot(tr[((k - 1) \div w) + 1], data, (k - 1) % w, w)]))
  IN  Tensor(<<1, 1, h, w>>, With(With(v.data, Rows), Columns)))

-----------------------------------------------------------------------------
(* The processor instance *)

IMAGENET_STANDARD_MEAN == [kind |-> "list", v |-> << <<1, 2>>, <<1, 2>>, <<1, 2>> >>]

IMAGENET_STANDARD_STD == [kind |-> "list", v |-> << <<1, 2>>, <<1, 2>>, <<1, 2>> >>]

DefaultSize == [height |-> 1536, width |-> 1536]

(* The keyword arguments of __init__ left at their defaults *)
DefaultArgs ==
  [do_resize |-> Some(TRUE), size |-> None, resample |-> Some("BILINEAR"),
   antialias |-> Some(FALSE), do_rescale |-> Some(TRUE),
   rescale_factor |-> Some(<<1, 255>>), do_normalize |-> Some(TRUE),
   image_mean |-> None, image_std |-> None]

(* A Python object: its identity and its attributes *)
Object(id, attrs) == [id |-> id] @@ attrs

(* DepthProImageProcessorFast.__init__: the attributes of the new instance. *)
(* get_size_dict returns a {"height", "width"} dict unchanged.              *)
__init__(a) ==
  [do_resize      |-> a.do_resize,
   do_rescale     |-> a.do_rescale,
   do_normalize   |-> a.do_normalize,
   size           |-> IF ~IsNone(a.size) THEN a.size ELSE Some(DefaultSize),
   resample       |-> a.resample,
   antialias      |-> a.antialias,
   rescale_factor |-> a.rescale_factor,
   image_mean     |-> IF ~IsNone(a.image_mean) THEN a.image_mean
                      ELSE Some(IMAGENET_STANDARD_MEAN),
   image_std      |-> IF ~IsNone(a.image_std) THEN a.image_std
                      ELSE Some(IMAGENET_STANDARD_STD)]

-----------------------------------------------------------------------------
(* post_process_depth_estimation *)

(* tan(0.5 * deg2rad(fov)) for the field-of-view angles of the model, given *)
(* in hundredths of a degree: 90 and 53.13 = 2 atan(1/2) degrees.           *)
TanHalf(fov) ==
  CASE fov = 9000 -> <<1, 1>>
    [] fov = 5313 -> <<1, 2>>

(* fov = 0.5 * width / torch.tan(0.5 * torch.deg2rad(fov)) *)
CorrectedFov(fov, width) == RDiv(RMul(<<1, 2>>, RInt(width)), TanHalf(fov))

(* The inversion with the upper limit of the clamp left out *)
InverseDepth_NoMax(t) ==
  RecipTensor([t EXCEPT !.data = MapSeq(LAMBDA x : IF RLess(x, CLAMP_MIN) THEN CLAMP_MIN ELSE x,
                                        t.data)])

(* 1.0 / torch.clamp(predicted_depth, min=1e-4, max=1e4) *)
InverseDepth(t) == With(ClampTensor(t, CLAMP_MIN, CLAMP_MAX), RecipTensor)

(* The iteration with the inversion placed before the resize *)
PostSample_InvertFirst(slf, out, trace, predicted_depth, fov, target_size) ==
  LET hasSize == ~IsNone(target_size)
      hasFov  == hasSize /\ ~IsNone(fov)
      width   == Get(target_size)[2]
      f       == CorrectedFov(Get(fov), width)
      scaled  == IF hasFov THEN ScaleBy(predicted_depth, width, f) ELSE predicted_depth
      fovOut  == IF hasFov THEN Some(Append(Get(out.fov), f)) ELSE out.fov
      ops1    == IF hasFov THEN << [op |-> "scale", width |-> width, f |-> f] >> ELSE <<>>
      mode    == pil_torch_interpolation_mapping(Get(slf.resample))
      err     == IF ~hasSize THEN None
                 ELSE IF IsNone(slf.resample) THEN Some(Exc("KeyError", "resample"))
                 ELSE InterpolateError(mode, slf.antialias)
      inverse == With(scaled, InverseDepth)
      resized == IF hasSize
                 THEN With(inverse, LAMBDA s :
                        Squeeze(Interpolate(s, Get(target_size), mode, slf.antialias)))
                 ELSE inverse
      ops2    == IF hasSize
                 THEN << [op |-> "interpolate", size |-> Get(target_size),
                          mode |-> mode, antialias |-> slf.antialias] >>
                 ELSE <<>>
  IN  IF ~IsNone(err)
      THEN [error |-> err,
            outputs |-> [predicted_depth |-> out.predicted_depth, fov |-> fovOut],
            trace |-> Append(trace, ops1)]
      ELSE [error |-> None,
            outputs |-> [predicted_depth |-> Append(out.predicted_depth, resized),
                         fov |-> fovOut],
            trace |-> Append(trace, ops1 \o << [op |-> "clamp"], [op |-> "reciprocal"] >>
                                         \o ops2)]

(* The iteration scaling by the fov of a sample that has no target size,   *)
(* with the width of the map itself                                         *)
PostSample_FovAlone(slf, out, trace, predicted_depth, fov, target_size) ==
  LET hasSize == ~IsNone(target_size)
      hasFov  == ~IsNone(fov)
      width   == IF hasSize THEN Get(target_size)[2] ELSE predicted_depth.shape[2]
      f       == CorrectedFov(Get(fov), width)
      scaled  == IF hasFov THEN ScaleBy(predicted_depth, width, f) ELSE predicted_depth
      fovOut  == IF hasFov THEN Some(Append(Get(out.fov), f)) ELSE out.fov
      ops1    == IF hasFov THEN << [op |-> "scale", width |-> width, f |-> f] >> ELSE <<>>
      mode    == pil_torch_interpolation_mapping(Get(slf.resample))
      err     == IF ~hasSize THEN None
                 ELSE IF IsNone(slf.resample) THEN Some(Exc("KeyError", "resample"))
                 ELSE InterpolateError(mode, slf.antialias)
      resized == IF hasSize
                 THEN With(scaled, LAMBDA s :
                        Squeeze(Interpolate(s, Get(target_size), mode, slf.antialias)))
                 ELSE scaled
      ops2    == IF hasSize
                 THEN ops1 \o << [op |-> "interpolate", size |-> Get(target_size),
                                  mode |-> mode, antialias |-> slf.antialias] >>
                 ELSE ops1
  IN  IF ~IsNone(err)
      THEN [error |-> err,
            outputs |-> [predicted_depth |-> out.predicted_depth, fov |-> fovOut],
            trace |-> Append(trace, ops1)]
      ELSE [error |-> None,
            outputs |-> [predicted_depth |->
                           Append(out.predicted_depth, With(resized, InverseDepth)),
                         fov |-> fovOut],
            trace |-> Append(trace, ops2 \o << [op |-> "clamp"], [op |-> "reciprocal"] >>)]

(* The iteration appending the fov before it is corrected *)
PostSample_RawFov(slf, out, trace, predicted_depth, fov, target_size) ==
  LET hasSize == ~IsNone(target_size)
      hasFov  == hasSize /\ ~IsNone(fov)
      width   == Get(target_size)[2]
      f       == CorrectedFov(Get(fov), width)
      scaled  == IF hasFov THEN ScaleBy(predicted_depth, width, f) ELSE predicted_depth
      fovOut  == IF hasFov THEN Some(Append(Get(out.fov), Rat(Get(fov), 100))) ELSE out.fov
      ops1    == IF hasFov THEN << [op |-> "scale", width |-> width, f |-> f] >> ELSE <<>>
      mode    == pil_torch_interpolation_mapping(Get(slf.resample))
      err     == IF ~hasSize THEN None
                 ELSE IF IsNone(slf.resample) THEN Some(Exc("KeyError", "resample"))
                 ELSE InterpolateError(mode, slf.antialias)
      resized == IF hasSize
                 THEN With(scaled, LAMBDA s :
                        Squeeze(Interpolate(s, Get(target_size), mode, slf.antialias)))
                 ELSE scaled
      ops2    == IF hasSize
                 THEN ops1 \o << [op |-> "interpolate", size |-> Get(target_size),
                                  mode |-> mode, antialias |-> slf.antialias] >>
                 ELSE ops1
  IN  IF ~IsNone(err)
      THEN [error |-> err,
            outputs |-> [predicted_depth |-> out.predicted_depth, fov |-> fovOut],
            trace |-> Append(trace, ops1)]
      ELSE [error |-> None,
            outputs |-> [predicted_depth |->
                           Append(out.predicted_depth, With(resized, InverseDepth)),
                         fov |-> fovOut],
            trace |-> Append(trace, ops2 \o << [op |-> "clamp"], [op |-> "reciprocal"] >>)]

(* The sample resized with the bilinear filter whatever the processor stores *)
PostSample_Bilinear(slf, out, trace, predicted_depth, fov, target_size) ==
  LET hasSize == ~IsNone(target_size)
      hasFov  == hasSize /\ ~IsNone(fov)
      width   == Get(target_size)[2]
      f       == CorrectedFov(Get(fov), width)
      scaled  == IF hasFov THEN ScaleBy(predicted_depth, width, f) ELSE predicted_depth
      fovOut  == IF hasFov THEN Some(Append(Get(out.fov), f)) ELSE out.fov
      ops1    == IF hasFov THEN << [op |-> "scale", width |-> width, f |-> f] >> ELSE <<>>
      mode    == "bilinear"
      err     == IF ~hasSize THEN None
                 ELSE IF IsNone(slf.resample) THEN Some(Exc("KeyError", "resample"))
                 ELSE InterpolateError(mode, slf.antialias)
      resized == IF hasSize
                 THEN With(scaled, LAMBDA s :
                        Squeeze(Interpolate(s, Get(target_size), mode, slf.antialias)))
                 ELSE scaled
      ops2    == IF hasSize
                 THEN ops1 \o << [op |-> "interpolate", size |-> Get(target_size),
                                  mode |-> mode, antialias |-> slf.antialias] >>
                 ELSE ops1
  IN  IF ~IsNone(err)
      THEN [error |-> err,
            outputs |-> [predicted_depth |-> out.predicted_depth, fov |-> fovOut],
            trace |-> Append(trace, ops1)]
      ELSE [error |-> None,
            outputs |-> [predicted_depth |->
                           Append(out.predicted_depth, With(resized, InverseDepth)),
                         fov |-> fovOut],
            trace |-> Append(trace, ops2 \o << [op |-> "clamp"], [op |-> "reciprocal"] >>)]

(* One iteration of the loop over zip(predicted_depths, fovs, target_sizes). *)
(* out is the outputs dict, trace the operations applied to each sample so  *)
(* far.  The result carries the exception raised, if any.                   *)
PostSample(slf, out, trace, predicted_depth, fov, target_size) ==
  LET hasSize == ~IsNone(target_size)
      hasFov  == hasSize /\ ~IsNone(fov)
      width   == Get(target_size)[2]
      f       == CorrectedFov(Get(fov), width)
      scaled  == IF hasFov THEN ScaleBy(predicted_depth, width, f) ELSE predicted_depth
      fovOut  == IF hasFov THEN Some(Append(Get(out.fov), f)) ELSE out.fov
      ops1    == IF hasFov THEN << [op |-> "scale", width |-> width, f |-> f] >> ELSE <<>>
      mode    == pil_torch_interpolation_mapping(Get(slf.resample))
      err     == IF ~hasSize THEN None
                 ELSE IF IsNone(slf.resample) THEN Some(Exc("KeyError", "resample"))
                 ELSE InterpolateError(mode, slf.antialias)
      resized == IF hasSize
                 THEN With(scaled, LAMBDA s :
                        Squeeze(Interpolate(s, Get(target_size), mode, slf.antialias)))
                 ELSE scaled
      ops2    == IF hasSize
                 THEN ops1 \o << [op |-> "interpolate", size |-> Get(target_size),
                                  mode |-> mode, antialias |-> slf.antialias] >>
                 ELSE ops1
  IN  IF ~IsNone(err)
      THEN [error |-> err,
            outputs |-> [predicted_depth |-> out.predicted_depth, fov |-> fovOut],
            trace |-> Append(trace, ops1)]
      ELSE [error |-> None,
            outputs |-> [predicted_depth |->
                           Append(out.predicted_depth, With(resized, InverseDepth)),
                         fov |-> fovOut],
            trace |-> Append(trace, ops2 \o << [op |-> "clamp"], [op |-> "reciprocal"] >>)]

(* The loop with a stale fov: a sample without one takes the fov of the   *)
(* sample before it.                                                        *)
RECURSIVE PostLoop_StaleFov(_, _, _, _, _, _, _)
PostLoop_StaleFov(slf, i, out, trace, predicted_depths, fovs, target_sizes) ==
  IF i > Len(predicted_depths)
  THEN [error |-> None, outputs |-> out, trace |-> trace]
  ELSE LET fov == IF i > 1 /\ IsNone(fovs[i]) /\ ~IsNone(out.fov) THEN fovs[i - 1] ELSE fovs[i]
       IN  With(PostSample(slf, out, trace, predicted_depths[i], fov, target_sizes[i]),
             LAMBDA r :
               IF ~IsNone(r.error) THEN r
               ELSE PostLoop_StaleFov(slf, i + 1, r.outputs, r.trace, predicted_depths,
                                      [fovs EXCEPT ![i] = fov], target_sizes))

RECURSIVE PostLoop(_, _, _, _, _, _, _)
PostLoop(slf, i, out, trace, predicted_depths, fovs, target_sizes) ==
  IF i > Len(predicted_depths)
  THEN [error |-> None, outputs |-> out, trace |-> trace]
  ELSE With(PostSample(slf, out, trace, predicted_depths[i], fovs[i], target_sizes[i]),
         LAMBDA r :
           IF ~IsNone(r.error) THEN r
           ELSE PostLoop(slf, i + 1, r.outputs, r.trace, predicted_depths, fovs,
                         target_sizes))

(* [None] * n *)
Nones(n) == [k \in 1..n |-> None]

(* The function without its second length check: zip stops at the shorter *)
(* of the lists.                                                            *)
PostProcess_NoTargetCheck(slf, predicted_depths, fovs, target_sizes) ==
  LET n == Len(predicted_depths)
  IN  IF ~IsNone(fovs) /\ n # Len(Get(fovs))
      THEN [error |-> Some(Exc("ValueError", "as many fov values as the batch dimension")),
            outputs |-> None, trace |-> <<>>]
      ELSE LET out == [predicted_depth |-> <<>>,
                       fov |-> IF ~IsNone(fovs) THEN Some(<<>>) ELSE None]
               fs  == IF IsNone(fovs) THEN Nones(n) ELSE Get(fovs)
               ts  == IF IsNone(target_sizes) THEN Nones(n) ELSE Get(target_sizes)
               k   == Min(n, Len(ts))
           IN  With(PostLoop(slf, 1, out, <<>>, SubSeq(predicted_depths, 1, k),
                             SubSeq(fs, 1, k), SubSeq(ts, 1, k)),
                 LAMBDA r :
                   [error |-> r.error, outputs |-> Some(r.outputs), trace |-> r.trace])

(* The whole function: the error raised or the dict returned.  outputs is   *)
(* None until the outputs dict has been created.                            *)
PostProcess(slf, predicted_depths, fovs, target_sizes) ==
  LET n == Len(predicted_depths)
  IN  IF ~IsNone(fovs) /\ n # Len(Get(fovs))
      THEN [error |-> Some(Exc("ValueError", "as many fov values as the batch dimension")),
            outputs |-> None, trace |-> <<>>]
      ELSE IF ~IsNone(target_sizes) /\ n # Len(Get(target_sizes))
      THEN [error |-> Some(Exc("ValueError", "as many fov values as the batch dimension")),
            outputs |-> None, trace |-> <<>>]
      ELSE LET out == [predicted_depth |-> <<>>,
                       fov |-> IF ~IsNone(fovs) THEN Some(<<>>) ELSE None]
               fs  == IF IsNone(fovs) THEN Nones(n) ELSE Get(fovs)
               ts  == IF IsNone(target_sizes) THEN Nones(n) ELSE Get(target_sizes)
           IN  With(PostLoop(slf, 1, out, <<>>, predicted_depths, fs, ts),
                 LAMBDA r :
                   [error |-> r.error, outputs |-> Some(r.outputs), trace |-> r.trace])

-----------------------------------------------------------------------------
(* _build_transforms and the transforms it composes *)

(* Python truthiness of an optional bool: None and False are falsy *)
Truthy(o) == o = Some(TRUE)

ImageType == {"PIL", "TORCH", "NUMPY", "TENSORFLOW", "JAX"}

(* The list with the resize placed before the rescaling and normalising *)
_build_transforms_ResizeFirst(do_resize, size, resample, antialias, do_rescale, rescale_factor, do_normalize, image_mean, image_std, image_type) ==
  LET convert ==
        IF image_type = "PIL" THEN << [op |-> "PILToTensor"] >>
        ELSE IF image_type = "NUMPY" THEN << [op |-> "NumpyToTensor"] >>
        ELSE <<>>
      value ==
        IF Truthy(do_rescale) /\ Truthy(do_normalize)
        THEN << [op |-> "FusedRescaleNormalize", mean |-> image_mean, std |-> image_std,
                 rescale_factor |-> rescale_factor] >>
        ELSE IF Truthy(do_rescale)
        THEN << [op |-> "Rescale", rescale_factor |-> rescale_factor] >>
        ELSE IF Truthy(do_normalize)
        THEN << [op |-> "Normalize", mean |-> image_mean, std |-> image_std] >>
        ELSE <<>>
      resize ==
        IF Truthy(do_resize)
        THEN << [op |-> "Resize",
                 size |-> <<Get(size).height, Get(size).width>>,
                 interpolation |-> pil_torch_interpolation_mapping(Get(resample)),
                 antialias |-> antialias] >>
        ELSE <<>>
  IN  convert \o resize \o value

(* The list with the filter of the resize fixed to bilinear *)
_build_transforms_Bilinear(do_resize, size, resample, antialias, do_rescale, rescale_factor, do_normalize, image_mean, image_std, image_type) ==
  LET convert ==
        IF image_type = "PIL" THEN << [op |-> "PILToTensor"] >>
        ELSE IF image_type = "NUMPY" THEN << [op |-> "NumpyToTensor"] >>
        ELSE <<>>
      value ==
        IF Truthy(do_rescale) /\ Truthy(do_normalize)
        THEN << [op |-> "FusedRescaleNormalize", mean |-> image_mean, std |-> image_std,
                 rescale_factor |-> rescale_factor] >>
        ELSE IF Truthy(do_rescale)
        THEN << [op |-> "Rescale", rescale_factor |-> rescale_factor] >>
        ELSE IF Truthy(do_normalize)
        THEN << [op |-> "Normalize", mean |-> image_mean, std |-> image_std] >>
        ELSE <<>>
      resize ==
        IF Truthy(do_resize)
        THEN << [op |-> "Resize",
                 size |-> <<Get(size).height, Get(size).width>>,
                 interpolation |-> "bilinear",
                 antialias |-> antialias] >>
        ELSE <<>>
  IN  convert \o value \o resize

(* The list of transforms handed to Compose *)
_build_transforms(do_resize, size, resample, antialias, do_rescale, rescale_factor, do_normalize, image_mean, image_std, image_type) ==
  LET convert ==
        IF image_type = "PIL" THEN << [op |-> "PILToTensor"] >>
        ELSE IF image_type = "NUMPY" THEN << [op |-> "NumpyToTensor"] >>
        ELSE <<>>
      value ==
        IF Truthy(do_rescale) /\ Truthy(do_normalize)
        THEN << [op |-> "FusedRescaleNormalize", mean |-> image_mean, std |-> image_std,
                 rescale_factor |-> rescale_factor] >>
        ELSE IF Truthy(do_rescale)
        THEN << [op |-> "Rescale", rescale_factor |-> rescale_factor] >>
        ELSE IF Truthy(do_normalize)
        THEN << [op |-> "Normalize", mean |-> image_mean, std |-> image_std] >>
        ELSE <<>>
      resize ==
        IF Truthy(do_resize)
        THEN << [op |-> "Resize",
                 size |-> <<Get(size).height, Get(size).width>>,
                 interpolation |-> pil_torch_interpolation_mapping(Get(resample)),
                 antialias |-> antialias] >>
        ELSE <<>>
  IN  convert \o value \o resize

(* What the parameters make _build_transforms raise, or None: the lookup    *)
(* pil_torch_interpolation_mapping[resample] of a resample that is no key.  *)
BuildError(do_resize, size, resample) ==
  IF Truthy(do_resize) /\ IsNone(size) THEN Some(Exc("TypeError", "size"))
  ELSE IF Truthy(do_resize) /\ IsNone(resample) THEN Some(Exc("KeyError", "resample"))
  ELSE None

(* An image handed to preprocess: its type and its (C, H, W) dimensions.    *)
(* A transformed image also carries the steps applied to it and the         *)
(* exception the last step raised, if any.                                   *)
Image(type, shape) == [type |-> type, shape |-> shape, applied |-> <<>>, error |-> None]

TensorFilters == {"nearest", "bilinear", "bicubic"}

(* One transform applied to one image.  torchvision's Resize of a tensor    *)
(* supports the filters of TensorFilters and uses antialias only with       *)
(* bilinear and bicubic; its Resize of a PIL image does not pass antialias  *)
(* on.                                                                       *)
ApplyStep(step, img) ==
  LET Fail(e) == [img EXCEPT !.error = Some(Exc(e, step.op))] IN
  IF ~IsNone(img.error) THEN img
  ELSE CASE step.op = "PILToTensor" ->
              IF img.type = "PIL"
              THEN [img EXCEPT !.type = "TORCH", !.applied = Append(@, step)]
              ELSE Fail("TypeError")
         [] step.op = "NumpyToTensor" ->
              IF img.type = "NUMPY"
              THEN [img EXCEPT !.type = "TORCH", !.applied = Append(@, step)]
              ELSE Fail("TypeError")
         [] step.op \in {"FusedRescaleNormalize", "Rescale", "Normalize"} ->
              IF img.type = "TORCH"
              THEN [img EXCEPT !.applied = Append(@, step)]
              ELSE Fail("TypeError")
         [] step.op = "Resize" ->
              IF img.type \notin {"TORCH", "PIL"} THEN Fail("TypeError")
              ELSE IF img.type = "TORCH" /\ step.interpolation \notin TensorFilters
              THEN Fail("ValueError")
              ELSE IF img.type = "PIL"
              THEN [img EXCEPT
                      !.shape = <<img.shape[1], step.size[1], step.size[2]>>,
                      !.applied = Append(@, [step EXCEPT !.antialias = None])]
              ELSE [img EXCEPT
                      !.shape = <<img.shape[1], step.size[1], step.size[2]>>,
                      !.applied = Append(@,
                         [step EXCEPT !.antialias =
                            IF step.interpolation \in {"bilinear", "bicubic"}
                            THEN Some(Truthy(step.antialias)) ELSE Some(FALSE)])]

(* Compose(transforms)(image) *)
RECURSIVE Compose(_, _)
Compose(transforms, img) ==
  IF transforms = <<>> THEN img
  ELSE Compose(Tail(transforms), ApplyStep(Head(transforms), img))

-----------------------------------------------------------------------------
(* preprocess *)

(* The merge written with "x or self.x": an override of False or 0 is lost *)
Merge_Truthy(slf, a) ==
  LET Or(x, y)   == IF IsNone(x) THEN y ELSE x
      OrB(x, y)  == IF IsNone(x) \/ x = Some(FALSE) THEN y ELSE x
      OrN(x, y)  == IF IsNone(x) \/ x = Some(<<0, 1>>) THEN y ELSE x
  IN  [do_resize      |-> OrB(a.do_resize, slf.do_resize),
       do_rescale     |-> OrB(a.do_rescale, slf.do_rescale),
       do_normalize   |-> OrB(a.do_normalize, slf.do_normalize),
       resample       |-> Or(a.resample, slf.resample),
       antialias      |-> OrB(a.antialias, slf.antialias),
       rescale_factor |-> OrN(a.rescale_factor, slf.rescale_factor),
       image_mean     |-> Or(a.image_mean, slf.image_mean),
       image_std      |-> Or(a.image_std, slf.image_std),
       size           |-> Or(a.size, slf.size)]

(* x if x is not None else self.x, for the nine parameters *)
Merge(slf, a) ==
  [do_resize      |-> IF ~IsNone(a.do_resize) THEN a.do_resize ELSE slf.do_resize,
   do_rescale     |-> IF ~IsNone(a.do_rescale) THEN a.do_rescale ELSE slf.do_rescale,
   do_normalize   |-> IF ~IsNone(a.do_normalize) THEN a.do_normalize ELSE slf.do_normalize,
   resample       |-> IF ~IsNone(a.resample) THEN a.resample ELSE slf.resample,
   antialias      |-> IF ~IsNone(a.antialias) THEN a.antialias ELSE slf.antialias,
   rescale_factor |-> IF ~IsNone(a.rescale_factor) THEN a.rescale_factor
                      ELSE slf.rescale_factor,
   image_mean     |-> IF ~IsNone(a.image_mean) THEN a.image_mean ELSE slf.image_mean,
   image_std      |-> IF ~IsNone(a.image_std) THEN a.image_std ELSE slf.image_std,
   size           |-> IF ~IsNone(a.size) THEN a.size ELSE slf.size]

(* SizeDict built from the keys of size: the frozen, hashable record *)
SizeDict(size) ==
  [height |-> size.height, width |-> size.width, longest_edge |-> None,
   shortest_edge |-> None, max_height |-> None, max_width |-> None]

(* tuple(x) if isinstance(x, list) else x, for an optional mean or std *)
Hashable(o) ==
  IF ~IsNone(o) /\ Get(o).kind = "list" THEN Some([Get(o) EXCEPT !.kind = "tuple"]) ELSE o

(* make_list_of_images: a list of images is kept, a single image becomes a  *)
(* list of one; anything that is no image is refused.                       *)
make_list_of_images(images) ==
  IF images.kind = "list" THEN images.items ELSE <<images.item>>

IsValidImage(img) == img.type \in ImageType

MakeListError(images) ==
  LET first == IF images.kind = "list" THEN images.items[1] ELSE images.item
  IN  IF IsValidImage(first) THEN None ELSE Some(Exc("ValueError", "invalid image type"))

get_image_type(img) == img.type

(* The body of _validate_input_arguments: the exception raised, or None *)
ValidateBody(k) ==
  IF k.return_tensors # Some("pt")
  THEN Some(Exc("ValueError", "only returning PyTorch tensors is supported"))
  ELSE IF k.data_format # "channels_first"
  THEN Some(Exc("ValueError", "only channel first data format is supported"))
  ELSE IF Truthy(k.do_resize)
          /\ (IsNone(k.size) \/ IsNone(k.resample) \/ IsNone(k.antialias))
       THEN Some(Exc("ValueError", "size, resample and antialias must be specified"))
  ELSE IF Truthy(k.do_rescale) /\ IsNone(k.rescale_factor)
       THEN Some(Exc("ValueError", "rescale factor must be specified"))
  ELSE IF Truthy(k.do_normalize) /\ (IsNone(k.image_mean) \/ IsNone(k.image_std))
       THEN Some(Exc("ValueError", "image mean and standard deviation must be specified"))
  ELSE None

(* The cache looked up without the key: any earlier success is a hit *)
_validate_input_arguments_AnyKey(cache, k) ==
  IF ~IsNone(cache) THEN [error |-> None, cache |-> cache]
  ELSE LET e == ValidateBody(k)
       IN  [error |-> e, cache |-> IF IsNone(e) THEN Some(k) ELSE cache]

(* functools.lru_cache(maxsize=1) around it: a call with the cached key     *)
(* returns the cached None without running the body; an exception is not    *)
(* cached.                                                                   *)
_validate_input_arguments(cache, k) ==
  IF cache = Some(k) THEN [error |-> None, cache |-> cache]
  ELSE LET e == ValidateBody(k)
       IN  [error |-> e, cache |-> IF IsNone(e) THEN Some(k) ELSE cache]

(* get_transforms of the base class: _build_transforms memoized on the      *)
(* exact keyword arguments, one entry.                                       *)
get_transforms(memo, k) ==
  IF ~IsNone(memo) /\ Get(memo).key = k
  THEN [error |-> None, transforms |-> Get(memo).transforms, memo |-> memo]
  ELSE LET e == BuildError(k.do_resize, k.size, k.resample)
           t == _build_transforms(k.do_resize, k.size, k.resample, k.antialias,
                                  k.do_rescale, k.rescale_factor, k.do_normalize,
                                  k.image_mean, k.image_std, k.image_type)
       IN  IF ~IsNone(e) THEN [error |-> e, transforms |-> <<>>, memo |-> memo]
           ELSE [error |-> None, transforms |-> t,
                 memo |-> Some([key |-> k, transforms |-> t])]

(* [transforms(image) for image in images]: stops at the first exception *)
RECURSIVE TransformAll(_, _, _, _)
TransformAll(transforms, images, i, done) ==
  IF i > Len(images) THEN [error |-> None, images |-> done]
  ELSE LET r == Compose(transforms, images[i])
       IN  IF ~IsNone(r.error) THEN [error |-> r.error, images |-> done]
           ELSE TransformAll(transforms, images, i + 1, Append(done, r))

(* The stack without the leading batch dimension *)
Stack_NoBatch(images) ==
  IF \E i \in 1..Len(images) : images[i].type # "TORCH"
  THEN [error |-> Some(Exc("TypeError", "stack expects tensors")), shape |-> <<>>]
  ELSE IF \E i \in 1..Len(images) : images[i].shape # images[1].shape
  THEN [error |-> Some(Exc("RuntimeError", "stack expects each tensor to be equal size")),
        shape |-> <<>>]
  ELSE [error |-> None, shape |-> images[1].shape]

(* torch.stack(transformed_images, dim=0): tensors of one shape *)
Stack(images) ==
  IF \E i \in 1..Len(images) : images[i].type # "TORCH"
  THEN [error |-> Some(Exc("TypeError", "stack expects tensors")), shape |-> <<>>]
  ELSE IF \E i \in 1..Len(images) : images[i].shape # images[1].shape
  THEN [error |-> Some(Exc("RuntimeError", "stack expects each tensor to be equal size")),
        shape |-> <<>>]
  ELSE [error |-> None, shape |-> <<Len(images)>> \o images[1].shape]

(* The keyword arguments preprocess passes to _validate_input_arguments    *)
(* and to get_transforms                                                    *)
ValidateKey(m, return_tensors, data_format, image_type) ==
  [do_resize |-> m.do_resize, size |-> m.size, resample |-> m.resample,
   antialias |-> m.antialias, do_rescale |-> m.do_rescale,
   rescale_factor |-> m.rescale_factor, do_normalize |-> m.do_normalize,
   image_mean |-> m.image_mean, image_std |-> m.image_std,
   return_tensors |-> return_tensors, data_format |-> data_format,
   image_type |-> image_type]

TransformKey(m, image_type) ==
  [do_resize |-> m.do_resize, do_rescale |-> m.do_rescale,
   do_normalize |-> m.do_normalize, size |-> m.size, resample |-> m.resample,
   antialias |-> m.antialias, rescale_factor |-> m.rescale_factor,
   image_mean |-> m.image_mean, image_std |-> m.image_std, image_type |-> image_type]

(* A call of a cached method of slf: the instance is the first argument of *)
(* the call and so part of the key of functools.lru_cache.                  *)
Bound(slf, k) == [instance |-> slf.id] @@ k

(* The whole of preprocess on the instance slf with the two caches vc and   *)
(* tm: where it stopped (status), the values it computed up to there, and   *)
(* the caches it leaves.                                                     *)
PreprocessResult(slf, vc, tm, images, a) ==
  LET m0  == Merge(slf, a)
      m   == [m0 EXCEPT !.size = Some(SizeDict(Get(m0.size))),
                        !.image_mean = Hashable(m0.image_mean),
                        !.image_std = Hashable(m0.image_std)]
      imgs == make_list_of_images(images)
      it  == get_image_type(imgs[1])
      v   == _validate_input_arguments(vc,
                Bound(slf, ValidateKey(m, a.return_tensors, a.data_format, it)))
      g   == get_transforms(tm, Bound(slf, TransformKey(m, it)))
      ta  == TransformAll(g.transforms, imgs, 1, <<>>)
      st  == Stack(ta.images)
      R(err, merged, type, transforms, transformed, pixels, vc2, tm2) ==
        [error |-> err, merged |-> merged, image_type |-> type,
         transforms |-> transforms, transformed |-> transformed,
         pixel_values |-> pixels, validate_cache |-> vc2, transform_memo |-> tm2]
  IN  IF IsNone(m0.size)
      THEN R(Some(Exc("TypeError", "argument after ** must be a mapping")),
             m0, None, <<>>, <<>>, None, vc, tm)
      ELSE IF ~IsNone(MakeListError(images))
      THEN R(MakeListError(images), m, None, <<>>, <<>>, None, vc, tm)
      ELSE IF it \notin {"PIL", "TORCH", "NUMPY"}
      THEN R(Some(Exc("ValueError", "unsupported input image type")),
             m, Some(it), <<>>, <<>>, None, vc, tm)
      ELSE IF ~IsNone(v.error)
      THEN R(v.error, m, Some(it), <<>>, <<>>, None, v.cache, tm)
      ELSE IF ~IsNone(g.error)
      THEN R(g.error, m, Some(it), <<>>, <<>>, None, v.cache, g.memo)
      ELSE IF ~IsNone(ta.error)
      THEN R(ta.error, m, Some(it), g.transforms, ta.images, None, v.cache, g.memo)
      ELSE IF ~IsNone(st.error)
      THEN R(st.error, m, Some(it), g.transforms, ta.images, None, v.cache, g.memo)
      ELSE R(None, m, Some(it), g.transforms, ta.images, Some(st.shape),
             v.cache, g.memo)

-----------------------------------------------------------------------------
(* Bounds and the inputs drawn from them *)

MaxImages == 2

MaxOverrides == 2

MaxBatch == 2

RECURSIVE SeqsOfLen(_, _)
SeqsOfLen(S, n) ==
  IF n = 0 THEN {<<>>}
  ELSE {Append(s, x) : s \in SeqsOfLen(S, n - 1), x \in S}

SeqsUpTo(S, lo, hi) == UNION {SeqsOfLen(S, n) : n \in lo..hi}

SmallSize == [height |-> 2, width |-> 3]

TallSize == [height |-> 4, width |-> 2]

ListMean == [kind |-> "list", v |-> << <<2, 5>>, <<1, 2>>, <<3, 5>> >>]

FloatStd == [kind |-> "float", v |-> << <<1, 4>> >>]

(* Constructor calls: the defaults, one leaving resample, antialias and     *)
(* rescale_factor unset, one changing every argument.                       *)
UnsetArgs ==
  [DefaultArgs EXCEPT !.resample = None, !.antialias = None, !.rescale_factor = None]

AltArgs ==
  [do_resize |-> Some(FALSE), size |-> Some(TallSize), resample |-> Some("BICUBIC"),
   antialias |-> Some(TRUE), do_rescale |-> Some(FALSE),
   rescale_factor |-> Some(<<1, 2>>), do_normalize |-> Some(FALSE),
   image_mean |-> Some(FloatStd), image_std |-> Some(ListMean)]

CtorArgs == {DefaultArgs, UnsetArgs, AltArgs}

(* The keyword arguments of preprocess: each at its default or at one of    *)
(* the values below, at most MaxOverrides of them away from the default.    *)
DefaultCall ==
  [do_resize |-> None, size |-> None, resample |-> None, antialias |-> None,
   do_rescale |-> None, rescale_factor |-> None, do_normalize |-> None,
   image_mean |-> None, image_std |-> None,
   return_tensors |-> Some("pt"), data_format |-> "channels_first"]

Kwargs == DOMAIN DefaultCall

AllCalls ==
  [do_resize      : {None, Some(TRUE), Some(FALSE)},
   size           : {None, Some(SmallSize)},
   resample       : {None, Some("NEAREST"), Some("BOX")},
   antialias      : {None, Some(TRUE), Some(FALSE)},
   do_rescale     : {None, Some(TRUE), Some(FALSE)},
   rescale_factor : {None, Some(<<0, 1>>)},
   do_normalize   : {None, Some(TRUE), Some(FALSE)},
   image_mean     : {None, Some(ListMean)},
   image_std      : {None, Some(FloatStd)},
   return_tensors : {Some("pt"), Some("np")},
   data_format    : {"channels_first", "channels_last"}]

Overridden(a) == {k \in Kwargs : a[k] # DefaultCall[k]}

Calls == {a \in AllCalls : Cardinality(Overridden(a)) <= MaxOverrides}

ImagePool ==
  {Image("PIL", <<3, 2, 2>>), Image("NUMPY", <<3, 2, 2>>), Image("TORCH", <<3, 2, 2>>),
   Image("TORCH", <<3, 1, 2>>), Image("TENSORFLOW", <<3, 2, 2>>)}

NotAnImage == Image("str", <<>>)

ImageInputs ==
  {[kind |-> "single", item |-> i] : i \in ImagePool \cup {NotAnImage}}
  \cup {[kind |-> "list", items |-> s] : s \in SeqsUpTo(ImagePool, 1, MaxImages)}

-----------------------------------------------------------------------------
(* State and actions *)

(* How a call ended: "returned", or the class of the exception it raised *)
Status(err) == IF IsNone(err) THEN "returned" ELSE Get(err).type

Message(err) == IF IsNone(err) THEN "" ELSE Get(err).msg

IdlePre ==
  [status |-> "idle", message |-> "", images |-> <<>>, args |-> DefaultCall,
   merged |-> <<>>,
   image_type |-> None, transforms |-> <<>>, transformed |-> <<>>,
   pixel_values |-> None]

IdlePost ==
  [status |-> "idle", message |-> "", predicted_depths |-> <<>>, fovs |-> None,
   target_sizes |-> None,
   outputs |-> None, trace |-> <<>>]

(* processor = DepthProImageProcessorFast(...) with the keyword arguments a *)
Construct(a) ==
  /\ self = Object(1, __init__(a))
  /\ pre = IdlePre
  /\ post = IdlePost
  /\ validate_cache = None
  /\ transform_memo = None
  /\ config = None

(* processor.<k> = None: an attribute of the instance assigned directly *)
AssignAttribute(k) ==
  /\ self' = [self EXCEPT ![k] = None]
  /\ UNCHANGED <<pre, validate_cache, transform_memo, post, config>>

(* processor.preprocess(images, ...) with the keyword arguments a *)
preprocess(images, a) ==
  \E r \in {PreprocessResult(self, validate_cache, transform_memo, images, a)} :
      /\ pre' = [status |-> Status(r.error), message |-> Message(r.error),
                 images |-> images, args |-> a,
                 merged |-> r.merged, image_type |-> r.image_type,
                 transforms |-> r.transforms, transformed |-> r.transformed,
                 pixel_values |-> r.pixel_values]
      /\ validate_cache' = r.validate_cache
      /\ transform_memo' = r.transform_memo
      /\ UNCHANGED <<self, post, config>>

InitPre == \E a \in CtorArgs : Construct(a)

AssignStep ==
  /\ pre.status = "idle"
  /\ ~IsNone(self.size) /\ ~IsNone(self.image_mean) /\ ~IsNone(self.image_std)
  /\ \E k \in {"size", "image_mean", "image_std"} : AssignAttribute(k)

PreStep ==
  /\ pre.status = "idle"
  /\ \E images \in ImageInputs, a \in Calls : preprocess(images, a)

NextPre == AssignStep \/ PreStep

SpecPre == InitPre /\ [][NextPre]_vars

-----------------------------------------------------------------------------
(* Inputs of post_process_depth_estimation *)

(* Raw depth maps of shape (H, W) *)
DepthPool ==
  {Tensor(<<1, 3>>, << <<2, 1>>, <<0, 1>>, <<1, 100000>> >>),
   Tensor(<<2, 2>>, << <<100000, 1>>, <<10000, 1>>, <<-1, 1>>, <<1, 2>> >>)}

(* Field-of-view angles in hundredths of a degree *)
FovPool == {9000}

(* Target sizes (height, width) *)
TargetPool == {<<1, 2>>, <<2, 1>>}

OptSeqs(S, n) == {None} \cup {Some(s) : s \in SeqsUpTo({None} \cup {Some(x) : x \in S}, 0, n)}

(* Processors for the postprocessing: the filters and flags that reach     *)
(* torch.nn.functional.interpolate.                                         *)
PostCtorArgs ==
  {[DefaultArgs EXCEPT !.resample = r, !.antialias = aa] :
     r \in {Some("NEAREST"), Some("BILINEAR")},
     aa \in {Some(FALSE), Some(TRUE)}}
  \cup {[DefaultArgs EXCEPT !.resample = r] : r \in {None, Some("BICUBIC"), Some("LANCZOS")}}

(* processor.post_process_depth_estimation(predicted_depths, fovs, target_sizes) *)
post_process_depth_estimation(predicted_depths, fovs, target_sizes) ==
  \E r \in {PostProcess(self, predicted_depths, fovs, target_sizes)} :
      /\ post' = [status |-> Status(r.error), message |-> Message(r.error),
                  predicted_depths |-> predicted_depths, fovs |-> fovs,
                  target_sizes |-> target_sizes,
                  outputs |-> r.outputs, trace |-> r.trace]
      /\ UNCHANGED <<self, pre, validate_cache, transform_memo, config>>

InitPost == \E a \in PostCtorArgs : Construct(a)

PostStep ==
  /\ post.status = "idle"
  /\ \E predicted_depths \in SeqsUpTo(DepthPool, 0, MaxBatch),
        fovs \in OptSeqs(FovPool, MaxBatch),
        target_sizes \in OptSeqs(TargetPool, MaxBatch) :
       post_process_depth_estimation(predicted_depths, fovs, target_sizes)

NextPost == PostStep

SpecPost == InitPost /\ [][NextPost]_vars

-----------------------------------------------------------------------------
(* A preprocess call followed by a post_process_depth_estimation call on    *)
(* the same processor                                                        *)

(* preprocess calls that leave resample, antialias and do_resize to the    *)
(* processor or override them                                               *)
RoundCalls ==
  {[DefaultCall EXCEPT !.resample = r, !.antialias = aa, !.do_resize = dr] :
     r \in {None, Some("NEAREST"), Some("BICUBIC")},
     aa \in {None, Some(TRUE), Some(FALSE)},
     dr \in {None, Some(FALSE)}}

RoundImages ==
  {[kind |-> "single", item |-> Image("TORCH", <<3, 2, 2>>)],
   [kind |-> "list", items |-> <<Image("PIL", <<3, 2, 2>>)>>]}

InitRound == \E a \in PostCtorArgs : Construct(a)

RoundPreStep ==
  /\ pre.status = "idle"
  /\ \E images \in RoundImages, a \in RoundCalls : preprocess(images, a)

RoundPostStep ==
  /\ pre.status = "returned"
  /\ post.status = "idle"
  /\ \E n \in 1..MaxBatch :
       \E predicted_depths \in SeqsOfLen(DepthPool, n),
          target_sizes \in SeqsOfLen({Some(x) : x \in TargetPool}, n) :
         post_process_depth_estimation(predicted_depths, None, Some(target_sizes))

NextRound == RoundPreStep \/ RoundPostStep

SpecRound == InitRound /\ [][NextRound]_vars

-----------------------------------------------------------------------------
(* Sequences of preprocess calls on several processors.  The two caches    *)
(* belong to the class: they are shared by the instances and live on from  *)
(* call to call.                                                            *)

MaxInstances == 2

(* The constructor arguments of the i-th processor *)
Processors(i) ==
  CASE i % 3 = 1 -> DefaultArgs
    [] i % 3 = 2 -> UnsetArgs
    [] OTHER     -> AltArgs

(* Calls with valid and with invalid parameters, with and without overrides *)
SeqCalls ==
  {DefaultCall,
   [DefaultCall EXCEPT !.return_tensors = Some("np")],
   [DefaultCall EXCEPT !.data_format = "channels_last"],
   [DefaultCall EXCEPT !.do_resize = Some(FALSE)],
   [DefaultCall EXCEPT !.do_resize = Some(TRUE), !.size = Some(SmallSize)],
   [DefaultCall EXCEPT !.resample = Some("NEAREST"), !.antialias = Some(TRUE)],
   [DefaultCall EXCEPT !.do_rescale = Some(TRUE)]}

SeqImages ==
  {[kind |-> "single", item |-> Image("TORCH", <<3, 2, 2>>)],
   [kind |-> "single", item |-> Image("PIL", <<3, 2, 2>>)],
   [kind |-> "list", items |-> <<Image("TORCH", <<3, 2, 2>>), Image("TORCH", <<3, 1, 2>>)>>],
   [kind |-> "list", items |-> <<Image("TORCH", <<3, 2, 2>>), Image("PIL", <<3, 2, 2>>)>>]}

InitCalls == Construct(Processors(1))

(* The next call is made on the i-th processor *)
SwitchStep ==
  /\ \E i \in 1..MaxInstances :
       /\ i # self.id
       /\ self' = Object(i, __init__(Processors(i)))
  /\ pre' = IdlePre
  /\ UNCHANGED <<validate_cache, transform_memo, post, config>>

(* One more call, whatever the calls before it *)
CallStep == \E images \in SeqImages, a \in SeqCalls : preprocess(images, a)

NextCalls == SwitchStep \/ CallStep

SpecCalls == InitCalls /\ [][NextCalls]_vars

-----------------------------------------------------------------------------
(* DepthProConfig *)

(* The keyword arguments of DepthProConfig.__init__ left at their defaults *)
ConfigDefaults ==
  [hidden_size |-> 1024, fusion_hidden_size |-> 256, num_hidden_layers |-> 24,
   num_attention_heads |-> 16, mlp_ratio |-> 4, hidden_act |-> "gelu",
   hidden_dropout_prob |-> <<0, 1>>, attention_probs_dropout_prob |-> <<0, 1>>,
   initializer_range |-> <<1, 50>>, layer_norm_eps |-> <<1, 1000000>>,
   image_size |-> 1536, patch_size |-> 384, num_channels |-> 3,
   patch_embeddings_size |-> 16, qkv_bias |-> TRUE, layerscale_value |-> <<1, 1>>,
   drop_path_rate |-> <<0, 1>>, use_swiglu_ffn |-> FALSE, apply_layernorm |-> TRUE,
   reshape_hidden_states |-> TRUE,
   intermediate_hook_ids |-> <<11, 5>>,
   intermediate_feature_dims |-> <<256, 256>>,
   scaled_images_ratios |-> << <<1, 4>>, <<1, 2>>, <<1, 1>> >>,
   scaled_images_overlap_ratios |-> << <<0, 1>>, <<1, 2>>, <<1, 4>> >>,
   scaled_images_feature_dims |-> <<1024, 1024, 512>>,
   use_batch_norm_in_fusion |-> FALSE, use_fov_model |-> TRUE,
   num_fov_head_layers |-> 2]

(* DepthProConfig.__init__: every argument is stored as it is given *)
DepthProConfig(a) ==
  [hidden_size |-> a.hidden_size, fusion_hidden_size |-> a.fusion_hidden_size,
   num_hidden_layers |-> a.num_hidden_layers,
   num_attention_heads |-> a.num_attention_heads, mlp_ratio |-> a.mlp_ratio,
   hidden_act |-> a.hidden_act, hidden_dropout_prob |-> a.hidden_dropout_prob,
   attention_probs_dropout_prob |-> a.attention_probs_dropout_prob,
   initializer_range |-> a.initializer_range, layer_norm_eps |-> a.layer_norm_eps,
   image_size |-> a.image_size, patch_size |-> a.patch_size,
   num_channels |-> a.num_channels, patch_embeddings_size |-> a.patch_embeddings_size,
   qkv_bias |-> a.qkv_bias, layerscale_value |-> a.layerscale_value,
   drop_path_rate |-> a.drop_path_rate, use_swiglu_ffn |-> a.use_swiglu_ffn,
   apply_layernorm |-> a.apply_layernorm,
   reshape_hidden_states |-> a.reshape_hidden_states,
   use_batch_norm_in_fusion |-> a.use_batch_norm_in_fusion,
   use_fov_model |-> a.use_fov_model, num_fov_head_layers |-> a.num_fov_head_layers,
   intermediate_hook_ids |-> a.intermediate_hook_ids,
   intermediate_feature_dims |-> a.intermediate_feature_dims,
   scaled_images_ratios |-> a.scaled_images_ratios,
   scaled_images_overlap_ratios |-> a.scaled_images_overlap_ratios,
   scaled_images_feature_dims |-> a.scaled_images_feature_dims]

(* The longest list given for a sequence argument *)
MaxSeqLen == 3

(* A list of n elements x *)
ListOf(x, n) == [k \in 1..n |-> x]

(* A sequence argument: left at its default, or a list of 0..MaxSeqLen elements *)
SeqArg(default, x) == {default} \cup {ListOf(x, n) : n \in 0..MaxSeqLen}

(* Constructor calls that give any of the five sequence arguments *)
ConfigArgs ==
  {[ConfigDefaults EXCEPT !.intermediate_hook_ids = h,
                          !.intermediate_feature_dims = d,
                          !.scaled_images_ratios = r,
                          !.scaled_images_overlap_ratios = o,
                          !.scaled_images_feature_dims = f] :
     h \in SeqArg(ConfigDefaults.intermediate_hook_ids, 7),
     d \in SeqArg(ConfigDefaults.intermediate_feature_dims, 128),
     r \in SeqArg(ConfigDefaults.scaled_images_ratios, <<1, 8>>),
     o \in SeqArg(ConfigDefaults.scaled_images_overlap_ratios, <<1, 8>>),
     f \in SeqArg(ConfigDefaults.scaled_images_feature_dims, 768)}

InitConfig == Construct(DefaultArgs)

(* config = DepthProConfig(...) with the keyword arguments a *)
DepthProConfigStep ==
  /\ IsNone(config)
  /\ \E a \in ConfigArgs : config' = Some(DepthProConfig(a))
  /\ UNCHANGED <<self, pre, validate_cache, transform_memo, post>>

NextConfig == DepthProConfigStep

SpecConfig == InitConfig /\ [][NextConfig]_vars

-----------------------------------------------------------------------------
(* Properties of preprocess, checked under SpecPre *)

(* The call has been made *)
Called == pre.status # "idle"

(* The transforms of the call have been built: get_transforms has returned *)
Built == Called /\ ~IsNone(transform_memo)

BuiltFor == Get(transform_memo).key

(* C1: the list _build_transforms returns is, in this order, one           *)
(* conversion step exactly when the image type is PIL or numpy, then one   *)
(* value step (the fused step for do_rescale and do_normalize, the rescale *)
(* step for do_rescale alone, the normalize step for do_normalize alone,   *)
(* none for neither), then one resize step to (size.height, size.width)    *)
(* exactly when do_resize is set; nothing else and nothing twice.           *)
C1_TransformSequence ==
  Built =>
    LET k    == BuiltFor
        t    == Get(transform_memo).transforms
        conv == IF k.image_type \in {"PIL", "NUMPY"} THEN 1 ELSE 0
        val  == IF k.do_rescale = Some(TRUE) \/ k.do_normalize = Some(TRUE) THEN 1 ELSE 0
        rsz  == IF k.do_resize = Some(TRUE) THEN 1 ELSE 0
    IN  /\ k.image_type \in {"PIL", "NUMPY", "TORCH"}
        /\ pre.transforms = t
        /\ Len(t) = conv + val + rsz
        /\ conv = 1 =>
             t[1].op = (IF k.image_type = "PIL" THEN "PILToTensor" ELSE "NumpyToTensor")
        /\ val = 1 =>
             t[conv + 1] =
               (IF k.do_rescale = Some(TRUE) /\ k.do_normalize = Some(TRUE)
                THEN [op |-> "FusedRescaleNormalize", mean |-> k.image_mean,
                      std |-> k.image_std, rescale_factor |-> k.rescale_factor]
                ELSE IF k.do_rescale = Some(TRUE)
                THEN [op |-> "Rescale", rescale_factor |-> k.rescale_factor]
                ELSE [op |-> "Normalize", mean |-> k.image_mean, std |-> k.image_std])
        /\ rsz = 1 =>
             /\ t[conv + val + 1].op = "Resize"
             /\ t[conv + val + 1].size = <<Get(k.size).height, Get(k.size).width>>

(* A numpy image, normalised only and resized: three steps *)
C1_Witness ==
  /\ Built
  /\ BuiltFor.image_type = "NUMPY"
  /\ BuiltFor.do_rescale = Some(FALSE)
  /\ BuiltFor.do_normalize = Some(TRUE)
  /\ BuiltFor.do_resize = Some(TRUE)
  /\ Len(pre.transforms) = 3
  /\ pre.transforms[3].op = "Resize"

(* The value of parameter k the call asks for: the override if it is set,  *)
(* the stored default otherwise.                                            *)
Chosen(k) == IF ~IsNone(pre.args[k]) THEN pre.args[k] ELSE self[k]

FirstImage ==
  IF pre.images.kind = "list" THEN pre.images.items[1] ELSE pre.images.item

(* The cases C2 lists *)
InvalidArguments ==
  \/ pre.args.return_tensors # Some("pt")
  \/ pre.args.data_format # "channels_first"
  \/ /\ Chosen("do_resize") = Some(TRUE)
     /\ IsNone(Chosen("size")) \/ IsNone(Chosen("resample")) \/ IsNone(Chosen("antialias"))
  \/ Chosen("do_rescale") = Some(TRUE) /\ IsNone(Chosen("rescale_factor"))
  \/ /\ Chosen("do_normalize") = Some(TRUE)
     /\ IsNone(Chosen("image_mean")) \/ IsNone(Chosen("image_std"))
  \/ FirstImage.type \notin {"PIL", "TORCH", "NUMPY"}

Refused == pre.status = "ValueError" /\ pre.transformed = <<>> /\ IsNone(pre.pixel_values)

(* C2 as stated: a call with a return_tensors other than "pt", a           *)
(* data_format other than channels first, do_resize with size, resample or *)
(* antialias None, do_rescale with rescale_factor None, do_normalize with  *)
(* image_mean or image_std None, or a first image that is not PIL, torch   *)
(* or numpy raises ValueError before any image is transformed.             *)
C2_InvalidArguments == (Called /\ InvalidArguments) => Refused

(* C2 for the calls whose size is set: the same cases raise ValueError     *)
(* before any image is transformed.                                         *)
C2_InvalidArgumentsWithSize ==
  (Called /\ InvalidArguments /\ ~IsNone(Chosen("size"))) => Refused

(* do_resize with the size of the processor set to None: TypeError from    *)
(* the SizeDict construction, before the validation.                        *)
C2_Witness ==
  /\ Called
  /\ Chosen("do_resize") = Some(TRUE)
  /\ IsNone(Chosen("size"))
  /\ pre.status = "TypeError"

WithOtherAntialias ==
  LET k == BuiltFor
  IN  TransformAll(
        _build_transforms(k.do_resize, k.size, k.resample,
                          Some(k.antialias # Some(TRUE)), k.do_rescale, k.rescale_factor,
                          k.do_normalize, k.image_mean, k.image_std, k.image_type),
        make_list_of_images(pre.images), 1, <<>>)

ResizeOf(img) == img.applied[Len(img.applied)]

InputImages == make_list_of_images(pre.images)

-----------------------------------------------------------------------------
(* Properties of sequences of preprocess calls, checked under SpecCalls *)

(* What the call recorded in pre gives on the processor slf when both      *)
(* caches are empty                                                         *)
FirstCall(slf, p) == PreprocessResult(slf, None, None, p.images, p.args)

SameOutcome(p, r) ==
  /\ p.status = Status(r.error)
  /\ p.message = Message(r.error)
  /\ p.merged = r.merged
  /\ p.transforms = r.transforms
  /\ p.transformed = r.transformed
  /\ p.pixel_values = r.pixel_values

(* C13: whatever calls were made before, on this or another processor, a   *)
(* preprocess call ends as it does with empty caches: with the same error  *)
(* or the same transforms applied to its images; a call with invalid       *)
(* parameters raises ValueError, a call that passes the validation applies *)
(* the transforms of its own parameters and image type, and the attributes *)
(* of the processor are left as they were.                                  *)
C13_CallsIndependent ==
  [][pre'.status # "idle" =>
       /\ self' = self
       /\ \E r \in {FirstCall(self, pre')} : SameOutcome(pre', r)
       /\ (InvalidArguments /\ ~IsNone(Chosen("size")))' => Refused'
       /\ pre'.status = "returned" =>
            /\ ~InvalidArguments'
            /\ BuiltFor'.instance = self.id
            /\ BuiltFor'.image_type = FirstImage'.type
            /\ \A k \in {"do_resize", "do_rescale", "do_normalize", "resample",
                          "antialias", "rescale_factor"} : BuiltFor'[k] = Chosen(k)'
            /\ C1_TransformSequence']_vars

(* A call refused for its parameters while both caches hold the entries of *)
(* an earlier call, made on the other processor                             *)
C13_Witness ==
  /\ pre.status = "ValueError"
  /\ pre.args = DefaultCall
  /\ ~IsNone(validate_cache) /\ ~IsNone(transform_memo)
  /\ Get(validate_cache).instance # self.id
  /\ Get(transform_memo).key.instance # self.id

-----------------------------------------------------------------------------
(* Properties of post_process_depth_estimation, checked under SpecPost *)

(* The per-sample fovs and target sizes of the recorded call, with the     *)
(* [None] * n of an argument that was not given.                           *)
PostN == Len(post.predicted_depths)

PostFovs == IF IsNone(post.fovs) THEN Nones(PostN) ELSE Get(post.fovs)

PostSizes == IF IsNone(post.target_sizes) THEN Nones(PostN) ELSE Get(post.target_sizes)

LengthMismatch ==
  \/ ~IsNone(post.fovs) /\ Len(Get(post.fovs)) # PostN
  \/ ~IsNone(post.target_sizes) /\ Len(Get(post.target_sizes)) # PostN

LengthError ==
  /\ post.status = "ValueError"
  /\ post.message = "as many fov values as the batch dimension"

(* C4: a call whose fovs or target_sizes is given with a length other than *)
(* that of predicted_depths raises the length ValueError with no output    *)
(* made and no sample touched, an empty list against a non-empty one       *)
(* included; a call whose given lists all have the length of               *)
(* predicted_depths never raises it.                                        *)
C4_LengthMismatch ==
  post.status # "idle" =>
    /\ LengthMismatch => (LengthError /\ IsNone(post.outputs) /\ post.trace = <<>>)
    /\ ~LengthMismatch => ~LengthError

(* An empty target_sizes against a non-empty batch, refused *)
C4_Witness ==
  /\ LengthError
  /\ IsNone(post.fovs)
  /\ post.target_sizes = Some(<<>>)
  /\ PostN > 0

(* What the call on sample i alone returns for it *)
Alone(i) ==
  Get(PostProcess(self, <<post.predicted_depths[i]>>, Some(<<PostFovs[i]>>),
                  Some(<<PostSizes[i]>>)).outputs).predicted_depth[1]

(* C5: a call that returns gives one depth map per input sample, and the   *)
(* map at index i is the one the call on sample i alone (its depth map,    *)
(* its fov, its target size) gives, whatever the other samples are.        *)
C5_PerSample ==
  post.status = "returned" =>
    /\ Len(Get(post.outputs).predicted_depth) = PostN
    /\ \A i \in 1..PostN : \E alone \in {Alone(i)} :
                              Get(post.outputs).predicted_depth[i] = alone

(* Two samples, the first with a fov and a target size, the second with a  *)
(* target size only.                                                        *)
C5_Witness ==
  /\ post.status = "returned"
  /\ PostN = 2
  /\ ~IsNone(PostFovs[1]) /\ ~IsNone(PostSizes[1])
  /\ IsNone(PostFovs[2]) /\ ~IsNone(PostSizes[2])

(* The samples, in order, that have what Has asks of them *)
Samples(Has(_)) == SelectSeq([i \in 1..PostN |-> i], Has)

HasSize(i) == ~IsNone(PostSizes[i])

HasSizeAndFov(i) == ~IsNone(PostSizes[i]) /\ ~IsNone(PostFovs[i])

(* 0.5 * width / tan(0.5 * fov) for each of the samples idx *)
CorrectedFovs(idx) ==
  [k \in 1..Len(idx) |-> CorrectedFov(Get(PostFovs[idx[k]]), Get(PostSizes[idx[k]])[2])]

(* C6 as stated: the fov output is None when fovs is not given, and        *)
(* otherwise holds one corrected value for each sample with a target size. *)
C6_OnePerTargetSize ==
  post.status = "returned" =>
    IF IsNone(post.fovs) THEN IsNone(Get(post.outputs).fov)
    ELSE /\ ~IsNone(Get(post.outputs).fov)
         /\ Len(Get(Get(post.outputs).fov)) = Len(Samples(HasSize))

(* C6: the fov output is None when fovs is not given, and otherwise holds, *)
(* in sample order, the corrected value of each sample that has both a     *)
(* target size and a fov of its own.                                        *)
C6_FovOutput ==
  post.status = "returned" =>
    IF IsNone(post.fovs) THEN IsNone(Get(post.outputs).fov)
    ELSE /\ ~IsNone(Get(post.outputs).fov)
         /\ Get(Get(post.outputs).fov) = CorrectedFovs(Samples(HasSizeAndFov))

(* Two samples with target sizes, the second without a fov *)
C6_Witness ==
  /\ post.status = "returned"
  /\ ~IsNone(post.fovs)
  /\ PostN = 2
  /\ HasSizeAndFov(1)
  /\ HasSize(2) /\ IsNone(PostFovs[2])
  /\ Len(Get(Get(post.outputs).fov)) = 1

TEN_THOUSAND == <<10000, 1>>

ONE_TEN_THOUSANDTH == <<1, 10000>>

(* What C7 says of one element x and the element y returned for it *)
InverseOf(x, y) ==
  /\ y = Recip(Clamp(x, ONE_TEN_THOUSANDTH, TEN_THOUSAND))
  /\ RLess(x, ONE_TEN_THOUSANDTH) => y = TEN_THOUSAND
  /\ RLess(TEN_THOUSAND, x) => y = ONE_TEN_THOUSANDTH
  /\ x = <<2, 1>> => y = <<1, 2>>
  /\ y[2] # 0
  /\ RLeq(ONE_TEN_THOUSANDTH, y) /\ RLeq(y, TEN_THOUSAND)

(* C7: for a sample with no target size and no fov the map returned has    *)
(* the shape of the input and each element is 1 / clamp(x, 1e-4, 1e4):     *)
(* 1e4 for x below 1e-4, 1e-4 for x above 1e4, 0.5 for 2.0, always within  *)
(* [1e-4, 1e4] and never a division by zero.                                *)
C7_InverseDepth ==
  post.status = "returned" =>
    \A i \in 1..PostN :
      (IsNone(PostSizes[i]) /\ IsNone(PostFovs[i])) =>
        LET x == post.predicted_depths[i]
            y == Get(post.outputs).predicted_depth[i]
        IN  /\ y.shape = x.shape
            /\ Len(y.data) = Len(x.data)
            /\ \A j \in 1..Len(x.data) : InverseOf(x.data[j], y.data[j])

(* A map holding a value above 1e4, a negative one and 0.5, returned with  *)
(* neither fovs nor target sizes.                                           *)
C7_Witness ==
  /\ post.status = "returned"
  /\ IsNone(post.fovs) /\ IsNone(post.target_sizes)
  /\ PostN >= 1
  /\ \E j, k \in 1..Len(post.predicted_depths[1].data) :
       /\ RLess(TEN_THOUSAND, post.predicted_depths[1].data[j])
       /\ RLess(post.predicted_depths[1].data[k], <<0, 1>>)

(* The steps C8 expects for sample i, and the map they give *)
ExpectedSteps(i) ==
  LET size  == Get(PostSizes[i])
      f     == CorrectedFov(Get(PostFovs[i]), size[2])
      mode  == pil_torch_interpolation_mapping(Get(self.resample))
  IN  (IF ~IsNone(PostFovs[i])
       THEN << [op |-> "scale", width |-> size[2], f |-> f] >> ELSE <<>>)
      \o << [op |-> "interpolate", size |-> size, mode |-> mode,
             antialias |-> self.antialias],
            [op |-> "clamp"], [op |-> "reciprocal"] >>

ExpectedDepth(i) ==
  LET size   == Get(PostSizes[i])
      raw    == post.predicted_depths[i]
      f      == CorrectedFov(Get(PostFovs[i]), size[2])
      scaled == IF ~IsNone(PostFovs[i])
                THEN Tensor(raw.shape,
                            AsTuple([j \in 1..Len(raw.data) |->
                                       RDiv(RMul(raw.data[j], RInt(size[2])), f)]))
                ELSE raw
      mode   == pil_torch_interpolation_mapping(Get(self.resample))
      sized  == Interpolate(scaled, size, mode, self.antialias)
      t      == Squeeze(sized)
  IN  [sized |-> sized.shape,
       depth |-> Tensor(t.shape,
                        AsTuple([j \in 1..Len(t.data) |->
                           Recip(Clamp(t.data[j], ONE_TEN_THOUSANDTH, TEN_THOUSAND))]))]

(* C8: for every sample with a target size the steps are, in this order,   *)
(* the scaling by width / f when the sample has a fov (f being the value   *)
(* appended to the fov output), the resize to exactly (height, width), the *)
(* clamp, the reciprocal: each once, and the map returned is the one these *)
(* steps give.                                                              *)
C8_StepOrder ==
  post.status = "returned" =>
    \A i \in 1..PostN :
      HasSize(i) =>
        /\ post.trace[i] = ExpectedSteps(i)
        /\ \E e \in {ExpectedDepth(i)} :
             /\ e.sized = <<1, 1>> \o Get(PostSizes[i])
             /\ Get(post.outputs).predicted_depth[i] = e.depth
        /\ HasSizeAndFov(i) =>
             \E k \in 1..Len(Get(Get(post.outputs).fov)) :
               Get(Get(post.outputs).fov)[k] = post.trace[i][1].f

(* A sample with a fov and a target size, scaled, resized and inverted *)
C8_Witness ==
  /\ post.status = "returned"
  /\ PostN >= 1
  /\ HasSizeAndFov(1)
  /\ Len(post.trace[1]) = 4
  /\ post.trace[1][1].op = "scale"
  /\ post.trace[1][4].op = "reciprocal"

(* The trace of sample i has a multiplication by width / (2 * f) *)
Scaled(i) == \E k \in 1..Len(post.trace[i]) : post.trace[i][k].op = "scale"

(* C14: a sample is scaled by its field of view only when it has both a    *)
(* target size and a fov.  A fov given for a sample without a target size  *)
(* is ignored: the map returned is 1 / clamp(x, 1e-4, 1e4) of the input,   *)
(* neither scaled nor resized, and nothing is appended to the fov output   *)
(* for it; with fovs given and no target_sizes the fov output is the empty *)
(* list, not None.                                                          *)
C14_FovNeedsTargetSize ==
  post.status = "returned" =>
    /\ \A i \in 1..PostN : Scaled(i) <=> HasSizeAndFov(i)
    /\ \A i \in 1..PostN :
         (~HasSize(i) /\ ~IsNone(PostFovs[i])) =>
           LET x == post.predicted_depths[i]
               y == Get(post.outputs).predicted_depth[i]
           IN  /\ post.trace[i] = << [op |-> "clamp"], [op |-> "reciprocal"] >>
               /\ y.shape = x.shape
               /\ y.data = [j \in 1..Len(x.data) |->
                              Recip(Clamp(x.data[j], ONE_TEN_THOUSANDTH, TEN_THOUSAND))]
    /\ ~IsNone(post.fovs) =>
         /\ ~IsNone(Get(post.outputs).fov)
         /\ Len(Get(Get(post.outputs).fov)) = Len(Samples(HasSizeAndFov))
    /\ (~IsNone(post.fovs) /\ IsNone(post.target_sizes)) =>
         Get(post.outputs).fov = Some(<<>>)

(* Two samples, each with a fov, and no target_sizes: both fovs ignored *)
C14_Witness ==
  /\ post.status = "returned"
  /\ IsNone(post.target_sizes)
  /\ PostN = 2
  /\ ~IsNone(post.fovs)
  /\ \A i \in 1..PostN : ~IsNone(PostFovs[i])
  /\ Get(post.outputs).fov = Some(<<>>)
  /\ Len(Get(post.outputs).predicted_depth) = 2

-----------------------------------------------------------------------------
(* Properties of a preprocess call followed by a postprocess call, checked *)
(* under SpecRound                                                          *)

(* The preprocess call resized: the last of its transforms is the resize *)
PreResized ==
  /\ pre.status = "returned"
  /\ pre.transforms # <<>>
  /\ pre.transforms[Len(pre.transforms)].op = "Resize"

PreResize == pre.transforms[Len(pre.transforms)]

(* The resize of sample i of the postprocess call *)
PostResize(i) ==
  post.trace[i][CHOOSE j \in 1..Len(post.trace[i]) : post.trace[i][j].op = "interpolate"]

PostResized(i) ==
  /\ HasSize(i)
  /\ \E j \in 1..Len(post.trace[i]) : post.trace[i][j].op = "interpolate"

(* C9 as stated: after a preprocess call that resized, with or without     *)
(* overrides of resample and antialias, every resize of a postprocess call *)
(* on the same processor has the filter and the antialias value of the     *)
(* resize of the preprocess call.                                           *)
C9_SameAsPreprocess ==
  (PreResized /\ post.status = "returned") =>
    \A i \in 1..PostN :
      /\ PostResized(i)
      /\ PostResize(i).mode = PreResize.interpolation
      /\ PostResize(i).antialias = PreResize.antialias

(* C9, amended: every resize of a postprocess call has the filter and the  *)
(* antialias value stored in the processor, whatever the preprocess call   *)
(* before it overrode; they are those of the resize of the preprocess call *)
(* when that call overrode neither resample nor antialias.                  *)
C9_StoredFilter ==
  (pre.status = "returned" /\ post.status = "returned") =>
    \A i \in 1..PostN :
      /\ PostResized(i)
      /\ PostResize(i).mode = pil_torch_interpolation_mapping(Get(self.resample))
      /\ PostResize(i).antialias = self.antialias
      /\ (PreResized /\ IsNone(pre.args.resample) /\ IsNone(pre.args.antialias)) =>
           /\ PostResize(i).mode = PreResize.interpolation
           /\ PostResize(i).antialias = PreResize.antialias

(* A preprocess call that resized without overriding the filter, then a    *)
(* postprocess call that resized with the bicubic filter of the processor. *)
C9_Witness ==
  /\ PreResized
  /\ IsNone(pre.args.resample) /\ IsNone(pre.args.antialias)
  /\ post.status = "returned"
  /\ PostN = 2
  /\ PostResize(2).mode = "bicubic"
  /\ PreResize.interpolation = "bicubic"

-----------------------------------------------------------------------------
(* Properties of DepthProConfig, checked under SpecConfig *)

Parallel(c) ==
  /\ Len(c.intermediate_hook_ids) = Len(c.intermediate_feature_dims)
  /\ Len(c.scaled_images_ratios) = Len(c.scaled_images_overlap_ratios)
  /\ Len(c.scaled_images_overlap_ratios) = Len(c.scaled_images_feature_dims)

(* C12 as stated: every configuration the constructor returns has          *)
(* intermediate_hook_ids as long as intermediate_feature_dims, and         *)
(* scaled_images_ratios, scaled_images_overlap_ratios and                   *)
(* scaled_images_feature_dims of one length, whatever arguments are given.  *)
C12_ParallelSequences == ~IsNone(config) => Parallel(Get(config))

(* C12 for the configurations built without any of the five sequence       *)
(* arguments: the defaults are parallel.                                    *)
C12_DefaultsParallel ==
  (/\ ~IsNone(config)
   /\ \A k \in {"intermediate_hook_ids", "intermediate_feature_dims",
                 "scaled_images_ratios", "scaled_images_overlap_ratios",
                 "scaled_images_feature_dims"} : Get(config)[k] = ConfigDefaults[k])
  => /\ Len(Get(config).intermediate_hook_ids) = 2
     /\ Len(Get(config).intermediate_feature_dims) = 2
     /\ Len(Get(config).scaled_images_ratios) = 3
     /\ Len(Get(config).scaled_images_overlap_ratios) = 3
     /\ Len(Get(config).scaled_images_feature_dims) = 3

(* DepthProConfig(intermediate_hook_ids=[7]): one hook id, two feature dims *)
C12_Witness ==
  /\ ~IsNone(config)
  /\ Get(config).intermediate_hook_ids = <<7>>
  /\ Get(config).intermediate_feature_dims = <<256, 256>>
  /\ Get(config).scaled_images_ratios = ConfigDefaults.scaled_images_ratios

=============================================================================
